---- MODULE Spec2Model ----
(***************************************************************************)
(* Failure classification and remediation-decision engine of the           *)
(* infra-healer agent (opscart/agentic-devops-healing).                    *)
(*                                                                         *)
(* Text is modelled as a sequence of lines, a line as a sequence of words  *)
(* separated by single spaces.  Python's substring test (`in`), lower()   *)
(* and re.search are modelled on that representation: a phrase occurs in   *)
(* a line when its words occur in consecutive words of the line, the first *)
(* as a suffix and the last as a prefix of the line's word.  Confidence    *)
(* values are integers in hundredths (0.95 is 95).                         *)
(***************************************************************************)
EXTENDS Integers, Sequences, FiniteSets, TLC

VARIABLES
    pc,               \* position of the run
    env,              \* which credentials are set in the environment
    failure_context,  \* the request's fields (handle_failure)
    service_logs,     \* what the build service returns for the build's log
    completion,       \* what the text-completion service does when called
    context,          \* gather_failure_context's return value
    rca_result,       \* the classifier's return value
    action_result,    \* execute_remediation's return value
    outcomes,         \* what the source-control and work-tracking services do
    calls,            \* external calls made so far in the run
    raised,           \* the function an exception escaped from, or "none"
    policy,           \* can_be_autofixed's arguments and return value
    pr_result,        \* what a create-fix-PR collaborator returned
    fix,              \* the Fix Generator's collaborator and return value
    repo,             \* the GitHub repository the runs' fix PRs go to
    pattern,          \* detect_error_pattern's return value
    ai_result         \* terraform_analyzer.analyze_with_ai's return value

vars == <<pc, env, failure_context, service_logs, completion, context,
          rca_result, action_result, outcomes, calls, raised, policy,
          pr_result, fix, repo, pattern, ai_result>>

----------------------------------------------------------------------------
(* Bounds of the model *)

MaxLogLines == 2

MaxRespLines == 2

MaxMsgLines == 2

MaxRunLogLines == 1

MaxRunRespLines == 2

----------------------------------------------------------------------------
(* Strings *)

\* str.lower() on the words the model uses.
LowerTable ==
    [w \in {"Error:", "Reference", "Missing", "Invalid", "Azure", "Locations",
            "CATEGORY:", "CONFIDENCE:", "CAN_AUTOFIX:", "EXPLANATION:",
            "Configuration", "Syntax", "Authentication", "Error", "True",
            "False", "Pipeline", "YAML", "Terraform", "Build", "Extra", "AI:",
            "An", "Working",
            "$(Build.SourcesDirectory)/infrastructure/test-apps/infra-only/missing-variable"} |->
        CASE w = "Error:" -> "error:"
          [] w = "Reference" -> "reference"
          [] w = "Missing" -> "missing"
          [] w = "Invalid" -> "invalid"
          [] w = "Azure" -> "azure"
          [] w = "Locations" -> "locations"
          [] w = "CATEGORY:" -> "category:"
          [] w = "CONFIDENCE:" -> "confidence:"
          [] w = "CAN_AUTOFIX:" -> "can_autofix:"
          [] w = "EXPLANATION:" -> "explanation:"
          [] w = "Configuration" -> "configuration"
          [] w = "Syntax" -> "syntax"
          [] w = "Authentication" -> "authentication"
          [] w = "Error" -> "error"
          [] w = "True" -> "true"
          [] w = "False" -> "false"
          [] w = "Pipeline" -> "pipeline"
          [] w = "YAML" -> "yaml"
          [] w = "Terraform" -> "terraform"
          [] w = "Build" -> "build"
          [] w = "Extra" -> "extra"
          [] w = "An" -> "an"
          [] w = "Working" -> "working"
          [] w = "$(Build.SourcesDirectory)/infrastructure/test-apps/infra-only/missing-variable"
                -> "$(build.sourcesdirectory)/infrastructure/test-apps/infra-only/missing-variable"
          [] w = "AI:" -> "ai:"]

LowerWord(w) == IF w \in DOMAIN LowerTable THEN LowerTable[w] ELSE w

LowerLine(line) == [i \in 1..Len(line) |-> LowerWord(line[i])]

\* text.lower()
Lower(text) == [i \in 1..Len(text) |-> LowerLine(text[i])]

\* <<p, w>>: p is a proper prefix of the word w.
ProperPrefix ==
    { <<"error", "error:">>, <<"Error", "Error:">>,
      <<"azurerm_", "azurerm_resource_group">> }

\* <<s, w>>: s is a proper suffix of the word w.
ProperSuffix ==
    { <<"expected", "unexpected">> }

\* <<s, w>>: s occurs strictly inside the word w.
ProperInfix ==
    { <<"error", "##[error]">> }

StartsWith(w, p) == w = p \/ <<p, w>> \in ProperPrefix

EndsWith(w, s) == w = s \/ <<s, w>> \in ProperSuffix

WordContains(w, s) ==
    StartsWith(w, s) \/ EndsWith(w, s) \/ <<s, w>> \in ProperInfix

\* The phrase (a sequence of words) occurs in the line at word i.  first = TRUE
\* when the phrase opens with a space (its first word is a whole word of the
\* line), last = TRUE when it closes with one.
PhraseAt(line, i, phrase, first, last) ==
    LET k == Len(phrase) IN
    /\ k >= 1
    /\ i >= 1
    /\ i + k - 1 <= Len(line)
    /\ \A j \in 2..(k - 1) : line[i + j - 1] = phrase[j]
    /\ IF k = 1
       THEN CASE first /\ last -> line[i] = phrase[1]
              [] first /\ ~last -> StartsWith(line[i], phrase[1])
              [] ~first /\ last -> EndsWith(line[i], phrase[1])
              [] OTHER -> WordContains(line[i], phrase[1])
       ELSE /\ IF first THEN line[i] = phrase[1] ELSE EndsWith(line[i], phrase[1])
            /\ IF last THEN line[i + k - 1] = phrase[k]
                       ELSE StartsWith(line[i + k - 1], phrase[k])

LineContains(line, phrase) ==
    \E i \in 1..Len(line) : PhraseAt(line, i, phrase, FALSE, FALSE)

\* phrase in text
Contains(text, phrase) ==
    \E n \in 1..Len(text) : LineContains(text[n], phrase)

\* re.search('<head> .* <tail>', text): head, gap and tail lie on one line
\* ('.' matches no line break); " .* " needs the two spaces, so at least one
\* word lies between head and tail.  more = TRUE for a pattern that goes on
\* with ' .*' after the tail (the tail is then followed by a space).
LineSearchGap(line, head, tail, more) ==
    \E i \in 1..Len(line) :
        /\ PhraseAt(line, i, head, FALSE, TRUE)
        /\ \E j \in (i + Len(head) + 1)..Len(line) :
              /\ PhraseAt(line, j, tail, TRUE, more)
              /\ more => j + Len(tail) <= Len(line)

SearchGap(text, head, tail, more) ==
    \E n \in 1..Len(text) : LineSearchGap(text[n], head, tail, more)

\* All texts of at most n lines over a set of lines.
RECURSIVE TextsOfLen(_, _)
TextsOfLen(lines, n) ==
    IF n = 0 THEN { <<>> }
    ELSE { Append(t, l) : t \in TextsOfLen(lines, n - 1), l \in lines }

Texts(lines, n) == UNION { TextsOfLen(lines, k) : k \in 0..n }

----------------------------------------------------------------------------
(* analyzers/terraform_analyzer.py *)

\* terraform_keywords, lower-cased as line 22 compares them.
terraform_keywords ==
    { <<"terraform">>,
      <<"error:", "missing", "required", "variable">>,
      <<"error:", "invalid", "location">>,
      <<"error:", "unsupported", "argument">>,
      <<"error:", "reference", "to", "undeclared">>,
      <<"azurerm_">> }

is_terraform_failure(build_logs) ==
    \E keyword \in terraform_keywords : Contains(Lower(build_logs), keyword)

PatternConfidence95 == 95

PatternConfidence90 == 90

\* detect_error_pattern testing the region pattern before the variable pattern.
DetectRegionFirst(build_logs) ==
    IF Contains(build_logs, <<"was", "not", "found", "in", "the", "list", "of",
                              "supported", "Azure", "Locations">>)
    THEN <<"TERRAFORM_WRONG_REGION", PatternConfidence90>>
    ELSE IF Contains(build_logs, <<"Reference", "to", "undeclared", "input", "variable">>)
    THEN <<"TERRAFORM_MISSING_VARIABLE", PatternConfidence95>>
    ELSE IF \/ Contains(build_logs, <<"Invalid", "character">>)
            \/ Contains(build_logs, <<"Extra", "characters", "after", "interpolation">>)
            \/ Contains(build_logs, <<"Missing", "closing", "brace">>)
    THEN <<"TERRAFORM_SYNTAX_ERROR", PatternConfidence95>>
    ELSE <<"None", 0>>

\* Returns <<pattern, confidence>>; <<"None", 0>> stands for (None, None).
detect_error_pattern(build_logs) ==
    IF Contains(build_logs, <<"Reference", "to", "undeclared", "input", "variable">>)
    THEN <<"TERRAFORM_MISSING_VARIABLE", PatternConfidence95>>
    ELSE IF Contains(build_logs, <<"was", "not", "found", "in", "the", "list", "of",
                                   "supported", "Azure", "Locations">>)
    THEN <<"TERRAFORM_WRONG_REGION", PatternConfidence90>>
    ELSE IF \/ Contains(build_logs, <<"Invalid", "character">>)
            \/ Contains(build_logs, <<"Extra", "characters", "after", "interpolation">>)
            \/ Contains(build_logs, <<"Missing", "closing", "brace">>)
    THEN <<"TERRAFORM_SYNTAX_ERROR", PatternConfidence95>>
    ELSE <<"None", 0>>

\* re.search over auto_fixable_patterns (lines 70-83).
MatchesAutoFixable(error_lower) ==
    \/ SearchGap(error_lower, <<"variable">>, <<"was", "not", "set">>, FALSE)
    \/ SearchGap(error_lower, <<"variable">>, <<"not", "defined">>, FALSE)
    \/ Contains(error_lower, <<"missing", "required", "variable">>)
    \/ Contains(error_lower, <<"invalid", "region">>)
    \/ Contains(error_lower, <<"wrong", "region">>)
    \/ SearchGap(error_lower, <<"should", "be">>, <<"not">>, TRUE)
    \/ SearchGap(error_lower, <<"expected">>, <<"got">>, TRUE)
    \/ Contains(error_lower, <<"invalid", "location">>)

\* re.search over manual_review_patterns (lines 86-98).
MatchesManualReview(error_lower) ==
    \/ Contains(error_lower, <<"syntax", "error">>)
    \/ SearchGap(error_lower, <<"expected">>, <<"block">>, FALSE)
    \/ Contains(error_lower, <<"missing", "closing", "brace">>)
    \/ Contains(error_lower, <<"unexpected", "token">>)
    \/ Contains(error_lower, <<"authentication", "failed">>)
    \/ Contains(error_lower, <<"state", "conflict">>)
    \/ Contains(error_lower, <<"state", "locked">>)

can_be_autofixed(error_message, category) ==
    LET error_lower == Lower(error_message) IN
    IF MatchesAutoFixable(error_lower) THEN TRUE
    ELSE IF MatchesManualReview(error_lower) THEN FALSE
    ELSE IF category \in {"TERRAFORM_MISSING_VARIABLE", "TERRAFORM_WRONG_REGION"}
    THEN TRUE
    ELSE FALSE

\* float(text) of the CONFIDENCE line, in hundredths, for the texts that parse.
FloatTable ==
    [w \in {"-0.5", "0.0", "0.3", "0.49", "0.5", "0.64", "0.65", "0.8", "0.9",
            "0.95", "0.99", "1.0", "7"} |->
        CASE w = "-0.5" -> -50
          [] w = "0.0" -> 0
          [] w = "0.3" -> 30
          [] w = "0.49" -> 49
          [] w = "0.5" -> 50
          [] w = "0.64" -> 64
          [] w = "0.65" -> 65
          [] w = "0.8" -> 80
          [] w = "0.9" -> 90
          [] w = "0.95" -> 95
          [] w = "0.99" -> 99
          [] w = "1.0" -> 100
          [] w = "7" -> 700]

DefaultConfidence == 70

MissingVariableConfidence == 85

WrongRegionConfidence == 85

SyntaxErrorConfidence == 90

ConfidenceCap == 95

FallbackConfidence == 30

Max(a, b) == IF a >= b THEN a ELSE b

Min(a, b) == IF a <= b THEN a ELSE b

\* One pass of the loop over response.split('\n') (lines 282-299); st holds
\* category, confidence and can_autofix.
ParseLine(line, st) ==
    LET rest == SubSeq(line, 2, Len(line))
        restLower == LowerLine(rest)
    IN  IF Len(line) >= 1 /\ StartsWith(line[1], "CATEGORY:")
        THEN IF LineContains(restLower, <<"configuration">>)
             THEN [st EXCEPT !.category = "TERRAFORM_MISSING_VARIABLE"]
             ELSE IF LineContains(restLower, <<"syntax">>)
             THEN [st EXCEPT !.category = "TERRAFORM_SYNTAX_ERROR"]
             ELSE st
        ELSE IF Len(line) >= 1 /\ StartsWith(line[1], "CONFIDENCE:")
        THEN IF Len(rest) = 1 /\ rest[1] \in DOMAIN FloatTable
             THEN [st EXCEPT !.confidence = FloatTable[rest[1]]]
             ELSE [st EXCEPT !.confidence = DefaultConfidence]
        ELSE IF Len(line) >= 1 /\ StartsWith(line[1], "CAN_AUTOFIX:")
        THEN [st EXCEPT !.can_autofix =
                  Len(rest) = 1 /\ restLower[1] \in {"true", "yes", "1"}]
        ELSE st

RECURSIVE ParseResponse(_, _, _)
ParseResponse(response, n, st) ==
    IF n > Len(response) THEN st
    ELSE ParseResponse(response, n + 1, ParseLine(response[n], st))

\* The keyword overrides of lines 301-320, applied in the code's order.
MissingVariableOverride(explanation_lower, st) ==
    IF Contains(explanation_lower, <<"missing">>)
       /\ Contains(explanation_lower, <<"variable">>)
    THEN [can_autofix |-> TRUE, category |-> "TERRAFORM_MISSING_VARIABLE",
          confidence |-> Max(st.confidence, MissingVariableConfidence)]
    ELSE st

WrongRegionOverride(explanation_lower, st) ==
    IF \/ Contains(explanation_lower, <<"wrong", "region">>)
       \/ Contains(explanation_lower, <<"invalid", "region">>)
       \/ Contains(explanation_lower, <<"incorrect", "region">>)
       \/ Contains(explanation_lower, <<"not", "found", "in", "the", "list">>)
    THEN [can_autofix |-> TRUE, category |-> "TERRAFORM_WRONG_REGION",
          confidence |-> Max(st.confidence, WrongRegionConfidence)]
    ELSE st

\* The syntax override giving way to an earlier override's category.
SyntaxErrorOverrideEarlierWins(explanation_lower, st) ==
    IF /\ \/ Contains(explanation_lower, <<"syntax", "error">>)
          \/ Contains(explanation_lower, <<"missing", "brace">>)
          \/ Contains(explanation_lower, <<"invalid", "character">>)
          \/ Contains(explanation_lower, <<"unexpected", "token">>)
       /\ st.category \notin {"TERRAFORM_MISSING_VARIABLE", "TERRAFORM_WRONG_REGION"}
    THEN [can_autofix |-> FALSE, category |-> "TERRAFORM_SYNTAX_ERROR",
          confidence |-> Max(st.confidence, SyntaxErrorConfidence)]
    ELSE st

SyntaxErrorOverride(explanation_lower, st) ==
    IF \/ Contains(explanation_lower, <<"syntax", "error">>)
       \/ Contains(explanation_lower, <<"missing", "brace">>)
       \/ Contains(explanation_lower, <<"invalid", "character">>)
       \/ Contains(explanation_lower, <<"unexpected", "token">>)
    THEN [can_autofix |-> FALSE, category |-> "TERRAFORM_SYNTAX_ERROR",
          confidence |-> Max(st.confidence, SyntaxErrorConfidence)]
    ELSE st

\* min(confidence, 0.95) of line 324.
CapConfidence(confidence) == Min(confidence, ConfidenceCap)

\* terraform_analyzer.analyze_with_ai.  comp is what openai_client.analyze
\* does: it raises with the message comp.error, or returns comp.response.
tf_analyze_with_ai(build_logs, comp) ==
    IF comp.raises
    THEN [category |-> "UNKNOWN_ERROR",
          confidence |-> FallbackConfidence,
          explanation |-> << <<"Error", "analyzing", "with", "AI:">> \o comp.error >>,
          can_autofix |-> FALSE,
          suggested_fix |-> <<>>]
    ELSE
        LET response == comp.response
            parsed == ParseResponse(response, 1,
                          [category |-> "TERRAFORM_ERROR",
                           confidence |-> DefaultConfidence,
                           can_autofix |-> FALSE])
            explanation == response
            explanation_lower == Lower(explanation)
            st == SyntaxErrorOverride(explanation_lower,
                      WrongRegionOverride(explanation_lower,
                          MissingVariableOverride(explanation_lower, parsed)))
        IN  [category |-> st.category,
             confidence |-> CapConfidence(st.confidence),
             explanation |-> explanation,
             can_autofix |-> st.can_autofix,
             suggested_fix |-> <<>>]

\* PatternOverride forcing the category without raising the confidence.
PatternOverrideKeepsConfidence(result, hint) ==
    IF hint[1] # "None" /\ hint[2] >= PatternConfidence90
       /\ result.category # hint[1]
    THEN [result EXCEPT !.category = hint[1]]
    ELSE result

\* The override raising the confidence also when the categories agree.
PatternOverrideOnAgreement(result, hint) ==
    IF hint[1] # "None" /\ hint[2] >= PatternConfidence90
    THEN [result EXCEPT !.category = hint[1],
                        !.confidence = Max(result.confidence, hint[2])]
    ELSE result

\* The override of lines 124-131.
PatternOverride(result, hint) ==
    IF hint[1] # "None" /\ hint[2] >= PatternConfidence90
       /\ result.category # hint[1]
    THEN [result EXCEPT !.category = hint[1],
                        !.confidence = Max(result.confidence, hint[2])]
    ELSE result

\* is_syntax_error of lines 138-149; `and` binds tighter than `or`.
IsSyntaxError(category, explanation) ==
    \/ category = "TERRAFORM_SYNTAX_ERROR"
    \/ (Contains(explanation, <<"syntax", "error">>)
        /\ Contains(explanation, <<"missing", "closing", "brace">>))
    \/ Contains(explanation, <<"invalid", "character">>)

AUTO_FIXABLE ==
    {"TERRAFORM_MISSING_VARIABLE", "TERRAFORM_WRONG_REGION",
     "TERRAFORM_WRONG_VALUE", "Configuration Error"}

\* The can_autofix decision of lines 133-171.
AutofixDecision(category, explanation) ==
    IF IsSyntaxError(category, explanation) THEN FALSE
    ELSE \/ category \in AUTO_FIXABLE
         \/ (Contains(explanation, <<"missing">>) /\ Contains(explanation, <<"variable">>))
         \/ Contains(explanation, <<"wrong", "region">>)
         \/ Contains(explanation, <<"invalid", "region">>)

\* analyze_terraform_failure, for a log is_terraform_failure accepts.
analyze_terraform_failure(build_logs, comp) ==
    LET hint == detect_error_pattern(build_logs)
        result == PatternOverride(tf_analyze_with_ai(build_logs, comp), hint)
        category == result.category
        explanation == Lower(result.explanation)
    IN  [result EXCEPT !.can_autofix = AutofixDecision(category, explanation)]

----------------------------------------------------------------------------
(* analyzers/pipeline_analyzer.py *)

yaml_keywords ==
    { <<"YAML", "syntax", "error">>, <<"Invalid", "YAML">>, <<"Pipeline", "YAML">>,
      <<"##[error]">>, <<"Job", "...", "depends", "on", "invalid", "job">> }

is_pipeline_yaml_failure(build_logs) ==
    \E keyword \in yaml_keywords : Contains(build_logs, keyword)

YamlConfidence == 60

analyze_yaml_failure ==
    [category |-> "PIPELINE_YAML_ERROR",
     confidence |-> YamlConfidence,
     explanation |-> << <<"Pipeline", "YAML", "syntax", "error", "detected">> >>,
     can_autofix |-> FALSE,
     suggested_fix |-> << <<"Review", "pipeline", "YAML", "syntax">> >>]

----------------------------------------------------------------------------
(* function_app.py: the classifier *)

GenericConfidence == 30

UnknownConfidence == 0

generic_analysis(build_logs) ==
    IF \/ Contains(Lower(build_logs), <<"error">>)
       \/ Contains(Lower(build_logs), <<"failed">>)
    THEN [category |-> "UNKNOWN_ERROR",
          confidence |-> GenericConfidence,
          explanation |-> << <<"Build", "failed", "but", "specific", "error", "type",
                               "not", "recognized.", "Manual", "review", "required.">> >>,
          can_autofix |-> FALSE,
          suggested_fix |-> <<>>]
    ELSE [category |-> "UNKNOWN",
          confidence |-> UnknownConfidence,
          explanation |-> << <<"Unable", "to", "determine", "failure", "type">> >>,
          can_autofix |-> FALSE,
          suggested_fix |-> <<>>]

\* OpenAIClient.__init__ raises unless OPENAI_API_KEY is set.
OpenAIClientRaises(e) == ~e.OPENAI_API_KEY

\* context.get('build_logs', '')
ContextLogs(ctx) == IF ctx.has_logs THEN ctx.build_logs ELSE <<>>

\* The except clause of function_app.analyze_with_ai (lines 210-217).
AnalysisFailed(message) ==
    [category |-> "UNKNOWN",
     confidence |-> UnknownConfidence,
     explanation |-> << <<"Failed", "to", "analyze:">> \o message >>,
     can_autofix |-> FALSE,
     suggested_fix |-> <<>>]

\* What a function body does: it returns a value or raises with a message.
Return(v) == [exc |-> FALSE, message |-> <<>>, value |-> v]

Raise(m) == [exc |-> TRUE, message |-> m, value |-> <<>>]

\* The try block of function_app.analyze_with_ai (lines 190-208).
AnalyzeTry(ctx, e, comp) ==
    IF OpenAIClientRaises(e)
    THEN Raise(<<"OPENAI_API_KEY", "must", "be", "set">>)
    ELSE LET build_logs == ContextLogs(ctx) IN
         IF is_terraform_failure(build_logs)
         THEN Return(analyze_terraform_failure(build_logs, comp))
         ELSE IF is_pipeline_yaml_failure(build_logs)
         THEN Return(analyze_yaml_failure)
         ELSE Return(generic_analysis(build_logs))

\* function_app.analyze_with_ai: the try block under `except Exception`.
analyze_with_ai(ctx, e, comp) ==
    LET r == AnalyzeTry(ctx, e, comp) IN
    IF r.exc THEN Return(AnalysisFailed(r.message)) ELSE r

\* openai_client.analyze is called on the Terraform path only (line 273).
CompletionCalled(ctx, e) ==
    ~OpenAIClientRaises(e) /\ is_terraform_failure(ContextLogs(ctx))

----------------------------------------------------------------------------
(* shared/ado_client.py, shared/git_operations.py, shared/github_operations.py *)

\* str(e) of the exceptions the clients' constructors and calls raise.
AdoCredentialsMessage == <<"ADO_ORG_URL", "and", "ADO_PAT", "must", "be", "set">>

AdoPatMessage == <<"ADO_PAT", "must", "be", "set">>

GithubTokenMessage == <<"GITHUB_TOKEN", "must", "be", "set">>

UnexpectedKeywordMessage ==
    <<"create_fix_pr()", "got", "an", "unexpected", "keyword", "argument">>

NoneBranchMessage ==
    <<"'NoneType'", "object", "has", "no", "attribute", "'startswith'">>

\* AzureDevOpsClient.__init__ raises unless ADO_ORG_URL and ADO_PAT are set.
AdoClientRaises(e) == ~e.ADO_ORG_URL \/ ~e.ADO_PAT

\* GitOperations.__init__ raises unless ADO_PAT is set.
GitOperationsRaises(e) == ~e.ADO_PAT

\* GitHubOperations.__init__ raises unless GITHUB_TOKEN is set.
GitHubOperationsRaises(e) == ~e.GITHUB_TOKEN

\* AzureDevOpsClient.create_work_item against a service that accepts the Bug
\* ("bug"), rejects the Bug and accepts the Task ("task"), or rejects both
\* ("fail"): the id returned (None when both are rejected) and the number of
\* creations asked of the service.
\* create_work_item going on to the Task although the Bug was created.
CreateWorkItemAlwaysTask(service) ==
    CASE service = "bug" -> [id |-> "1002", attempts |-> 2, created |-> 2]
      [] service = "task" -> [id |-> "1001", attempts |-> 2, created |-> 1]
      [] OTHER -> [id |-> "None", attempts |-> 2, created |-> 0]

create_work_item(service) ==
    CASE service = "bug" -> [id |-> "1001", attempts |-> 1, created |-> 1]
      [] service = "task" -> [id |-> "1001", attempts |-> 2, created |-> 1]
      [] OTHER -> [id |-> "None", attempts |-> 2, created |-> 0]

\* The parameters GitOperations.create_fix_pr declares.
GitCreateFixPrParams == {"repo_url", "fix_code", "explanation", "base_branch"}

\* GitOperations.create_fix_pr called with keyword arguments: Python raises
\* TypeError for a keyword the signature lacks or a required parameter left out;
\* otherwise the placeholder URL is returned.
git_create_fix_pr(keywords) ==
    IF keywords \subseteq GitCreateFixPrParams
       /\ {"repo_url", "fix_code", "explanation"} \subseteq keywords
    THEN Return("https://dev.azure.com/example/pr/123")
    ELSE Raise(UnexpectedKeywordMessage)

\* str(e) of the exception a failing GitHub call raises.
GithubErrorMessage == <<"GithubException:", "502">>

\* GitHubOperations.create_fix_pr against a repository service that lets the
\* pull request be created ("created") or fails a call ("raises"): the method
\* re-raises (lines 228-232) or returns the new pull request with status
\* "created", the only status it has.
github_create_fix_pr(service) ==
    IF service = "created"
    THEN Return([pr_id |-> "17", pr_url |-> "https://github.com/opscart/app/pull/17",
                 status |-> "created"])
    ELSE Raise(GithubErrorMessage)

----------------------------------------------------------------------------
(* function_app.py: gather_failure_context *)

\* The try block (lines 125-170): the logs come from get_build_logs, which
\* returns "" itself when the fetch fails.
GatherTry(fc, e, logs) ==
    IF AdoClientRaises(e)
    THEN Raise(AdoCredentialsMessage)
    ELSE Return([has_logs |-> TRUE, build_logs |-> logs, error |-> <<>>])

gather_failure_context(fc, e, logs) ==
    LET r == GatherTry(fc, e, logs) IN
    IF r.exc
    THEN Return([has_logs |-> FALSE, build_logs |-> <<>>, error |-> r.message])
    ELSE r

\* The external fetches gather_failure_context makes.
GatherFetches(fc, e) ==
    IF AdoClientRaises(e) THEN [build_logs |-> 0, last_success |-> 0, pr_changes |-> 0]
    ELSE [build_logs |-> 1,
          last_success |-> IF fc.pipeline_id # "None" THEN 1 ELSE 0,
          pr_changes |-> IF fc.pr_id # "None" /\ fc.repo_url # "None" THEN 1 ELSE 0]

----------------------------------------------------------------------------
(* function_app.py: execute_remediation *)

AutofixThreshold == 65

WorkItemThreshold == 50

GithubUrls == {"https://github.com/opscart/app"}

\* is_github of lines 267-270.
IsGithub(repo_url) == IF repo_url = "None" THEN TRUE ELSE repo_url \in GithubUrls

\* format_work_item_description without its "Build Link" section.
FormatWithoutBuildLink(rca, fc) ==
    [build |-> fc.build_number,
     stage |-> fc.failed_stage,
     job |-> fc.failed_job,
     category |-> rca.category,
     confidence |-> rca.confidence,
     explanation |-> rca.explanation,
     suggested_fix |-> IF rca.suggested_fix = <<>>
                       THEN << <<"Manual", "investigation", "required">> >>
                       ELSE rca.suggested_fix,
     build_link |-> <<>>]

format_work_item_description(rca, fc) ==
    [build |-> fc.build_number,
     stage |-> fc.failed_stage,
     job |-> fc.failed_job,
     category |-> rca.category,
     confidence |-> rca.confidence,
     explanation |-> rca.explanation,
     suggested_fix |-> IF rca.suggested_fix = <<>>
                       THEN << <<"Manual", "investigation", "required">> >>
                       ELSE rca.suggested_fix,
     build_link |-> <<fc.organization_url, fc.project_name, fc.build_id>>]

\* autofix_attempted: line 264 ("attempting auto-fix") was reached.
NoEffects == [autofix_attempted |-> FALSE, create_fix_pr |-> <<>>,
              create_work_item |-> <<>>, service_attempts |-> 0,
              work_items_created |-> 0, pull_requests_created |-> 0]

Attempting == [NoEffects EXCEPT !.autofix_attempted = TRUE]

\* A body's result together with the external calls it made.
With(r, effects) ==
    [exc |-> r.exc, message |-> r.message, value |-> r.value, effects |-> effects]

\* ado_client.create_work_item(project, title, description) and the action
\* returned around its id; prefix is the text put before the formatted description.
WorkItemAction(action, title, prefix, rca, fc, out, effects) ==
    LET wi == create_work_item(out.work_item)
        call == [project |-> fc.project_name, title |-> title,
                 description |-> [prefix |-> prefix,
                                  body |-> format_work_item_description(rca, fc)]]
    IN  With(Return([action |-> action, work_item_id |-> wi.id,
                     details |-> <<"Created", "work", "item:">>]),
             [effects EXCEPT !.create_work_item = Append(@, call),
                             !.service_attempts = @ + wi.attempts,
                             !.work_items_created = @ + wi.created])

\* Lines 308-329 with "duplicate", the interface's word, for the status.
PrResultActionDuplicate(pr) ==
    IF pr.status = "duplicate"
    THEN [action |-> "EXISTING_PR_FOUND", pr_url |-> pr.pr_url, pr_number |-> pr.pr_id]
    ELSE [action |-> "AUTO_FIX_PR_CREATED", pr_url |-> pr.pr_url, pr_number |-> pr.pr_id]

\* Lines 308-329: the action for what create_fix_pr returned.  A result
\* without a status ("None") counts as 'created' (line 310).
PrResultAction(pr) ==
    IF pr.status = "duplicate_prevented"
    THEN [action |-> "EXISTING_PR_FOUND", pr_url |-> pr.pr_url, pr_number |-> pr.pr_id]
    ELSE [action |-> "AUTO_FIX_PR_CREATED", pr_url |-> pr.pr_url, pr_number |-> pr.pr_id]

\* The GitHub branch (lines 272-347).
GitHubTry(rca, fc, e, out) ==
    IF GitHubOperationsRaises(e)
    THEN With(Raise(GithubTokenMessage), Attempting)
    ELSE LET call == [repo_url |-> fc.repo_url, source_branch |-> fc.source_branch,
                      fix_description |-> rca.explanation, file_changes |-> <<>>,
                      category |-> rca.category]
             pr == github_create_fix_pr(out.github)
             effects == [Attempting EXCEPT
                            !.create_fix_pr = <<call>>,
                            !.pull_requests_created = IF pr.exc THEN 0 ELSE 1]
         IN  IF pr.exc THEN With(pr, effects)
             ELSE With(Return(PrResultAction(pr.value)), effects)

GitHubBranch(rca, fc, e, out) ==
    LET r == GitHubTry(rca, fc, e, out) IN
    IF r.exc
    THEN WorkItemAction("AUTO_FIX_SUGGESTED", "Auto-fix Suggested",
                        << <<"PR", "creation", "failed:">> \o r.message >>,
                        rca, fc, out, r.effects)
    ELSE r

\* The Azure Repos branch (lines 349-392).
AzureTry(rca, fc, e, out) ==
    IF GitOperationsRaises(e)
    THEN With(Raise(AdoPatMessage), Attempting)
    ELSE IF fc.source_branch = "None"
    THEN With(Raise(NoneBranchMessage), Attempting)
    ELSE LET call == [repo_url |-> fc.repo_url, source_branch |-> fc.source_branch,
                      fix_description |-> rca.explanation, file_changes |-> <<>>,
                      category |-> rca.category]
             pr == git_create_fix_pr({"project", "repo_name", "source_branch",
                                      "fix_description", "file_changes", "rca"})
             effects == [Attempting EXCEPT !.create_fix_pr = <<call>>]
         IN  IF pr.exc THEN With(pr, effects)
             ELSE With(Return([action |-> "AUTO_FIX_PR_CREATED", pr_url |-> pr.value]),
                       [effects EXCEPT !.pull_requests_created = 1])

\* The Azure Repos fallback returning a tag of its own.
AzureBranchOwnTag(rca, fc, e, out) ==
    LET r == AzureTry(rca, fc, e, out) IN
    IF r.exc
    THEN WorkItemAction("PR_FAILED", "Pipeline Failure", <<>>, rca, fc, out, r.effects)
    ELSE r

AzureBranch(rca, fc, e, out) ==
    LET r == AzureTry(rca, fc, e, out) IN
    IF r.exc
    THEN WorkItemAction("WORK_ITEM_CREATED", "Pipeline Failure", <<>>,
                        rca, fc, out, r.effects)
    ELSE r

\* Line 263 with > for >=.
AutofixBranchTakenStrict(rca) == rca.confidence > AutofixThreshold /\ rca.can_autofix

\* Line 263 without the can_autofix conjunct.
AutofixBranchTakenOnConfidence(rca) == rca.confidence >= AutofixThreshold

\* The condition of line 263.
AutofixBranchTaken(rca) == rca.confidence >= AutofixThreshold /\ rca.can_autofix

\* Line 395 comparing with the confidence of the generic fallback (0.3).
LowConfidenceWrongThreshold(rca) == rca.confidence < GenericConfidence

\* The condition of line 395.
LowConfidence(rca) == rca.confidence < WorkItemThreshold

\* The try block of execute_remediation (lines 254-417).
RemediationTry(rca, fc, e, out) ==
    IF AdoClientRaises(e)
    THEN With(Raise(AdoCredentialsMessage), NoEffects)
    ELSE IF AutofixBranchTaken(rca)
    THEN IF IsGithub(fc.repo_url)
         THEN GitHubBranch(rca, fc, e, out)
         ELSE AzureBranch(rca, fc, e, out)
    ELSE IF LowConfidence(rca)
    THEN With(Return([action |-> "SKIPPED",
                      details |-> <<"Analysis", "confidence", "too", "low", "-",
                                    "manual", "investigation", "required">>,
                      category |-> rca.category,
                      note |-> <<"No", "work", "item", "created", "due", "to", "low",
                                 "confidence">>]),
              NoEffects)
    ELSE WorkItemAction("WORK_ITEM_CREATED", "Pipeline Failure", <<>>,
                        rca, fc, out, NoEffects)

\* execute_remediation without its except clause: the exception propagates.
RemediationExceptMissing(r) == r

\* The except clause of lines 419-426.
RemediationExcept(r) ==
    IF r.exc
    THEN With(Return([action |-> "ERROR", details |-> r.message]), r.effects)
    ELSE r

execute_remediation(rca, fc, e, out) ==
    RemediationExcept(RemediationTry(rca, fc, e, out))

----------------------------------------------------------------------------
(* Inputs *)

LogLines ==
    { <<"Error:", "Reference", "to", "undeclared", "input", "variable", "\"azure_region\"">>,
      <<"Reference", "to", "undeclared", "input", "variable", "\"azure_region\"">>,
      <<"\"east-us\"", "was", "not", "found", "in", "the", "list", "of", "supported",
        "Azure", "Locations">>,
      <<"Error:", "Missing", "closing", "brace">>,
      <<"Error:", "authentication", "failed">>,
      <<"terraform", "init">>,
      <<"##[error]", "Pipeline", "YAML">>,
      <<"Build", "failed">>,
      <<"compile", "ok">> }

Logs == Texts(LogLines, MaxLogLines)

RespLines ==
    { <<"CATEGORY:", "Configuration", "Error">>,
      <<"CATEGORY:", "Syntax", "Error">>,
      <<"CATEGORY:", "Authentication", "Error">>,
      <<"CONFIDENCE:", "-0.5">>,
      <<"CONFIDENCE:", "0.5">>,
      <<"CONFIDENCE:", "0.65">>,
      <<"CONFIDENCE:", "1.0">>,
      <<"CONFIDENCE:", "high">>,
      <<"CAN_AUTOFIX:", "True">>,
      <<"CAN_AUTOFIX:", "False">>,
      <<"CAN_AUTOFIX:", "no", "syntax", "error">>,
      <<"EXPLANATION:", "the", "variable", "azure_region", "is", "missing">>,
      <<"EXPLANATION:", "invalid", "region", "east-us">>,
      <<"EXPLANATION:", "syntax", "error", "near", "invalid", "region">>,
      <<"EXPLANATION:", "unexpected", "token", "in", "missing", "variable">>,
      <<"EXPLANATION:", "authentication", "failed">>,
      <<"EXPLANATION:", "state", "locked">>,
      <<"EXPLANATION:", "provider", "crashed">> }

Responses == Texts(RespLines, MaxRespLines)

\* str(e) of the exception openai_client.analyze raises.
ErrorMessages == { <<"Connection", "timed", "out">>, <<"rate", "limit">> }

Returning(responses) ==
    { [raises |-> FALSE, error |-> <<>>, response |-> r] : r \in responses }

Raising ==
    { [raises |-> TRUE, error |-> m, response |-> <<>>] : m \in ErrorMessages }

Completions == Returning(Responses) \cup Raising

AllSet ==
    [ADO_ORG_URL |-> TRUE, ADO_PAT |-> TRUE, OPENAI_API_KEY |-> TRUE,
     GITHUB_TOKEN |-> TRUE]

\* Every credential set, or one of them missing, or none set.
Envs ==
    { AllSet,
      [AllSet EXCEPT !.ADO_ORG_URL = FALSE],
      [AllSet EXCEPT !.ADO_PAT = FALSE],
      [AllSet EXCEPT !.OPENAI_API_KEY = FALSE],
      [AllSet EXCEPT !.GITHUB_TOKEN = FALSE],
      [ADO_ORG_URL |-> FALSE, ADO_PAT |-> FALSE, OPENAI_API_KEY |-> FALSE,
       GITHUB_TOKEN |-> FALSE] }

\* The failure reports of the runs: a branch build of a GitHub repository, the
\* same for an Azure Repos repository, with no repository URL, a pull-request
\* build, a report with no source branch, and two that lack a required field.
GithubReport ==
    [build_id |-> "4711", build_number |-> "20240101.1", project_name |-> "AI-DevOps-POC",
     pipeline_id |-> "23", pr_id |-> "None", failed_stage |-> "Validate",
     failed_job |-> "terraform", repo_url |-> "https://github.com/opscart/app",
     source_branch |-> "refs/heads/main",
     organization_url |-> "https://dev.azure.com/opscart"]

AzureReport ==
    [GithubReport EXCEPT !.repo_url = "https://dev.azure.com/opscart/poc/_git/app"]

NoRequest == [GithubReport EXCEPT !.build_id = "None", !.project_name = "None"]

Requests ==
    { GithubReport,
      AzureReport,
      [GithubReport EXCEPT !.repo_url = "None", !.pipeline_id = "None"],
      [GithubReport EXCEPT !.pr_id = "7"],
      [AzureReport EXCEPT !.source_branch = "None"],
      [GithubReport EXCEPT !.build_id = "None"],
      [AzureReport EXCEPT !.project_name = "None"] }

\* What the build service returns for the failed build's log.
RunLogLines ==
    { <<"Error:", "Reference", "to", "undeclared", "input", "variable", "\"azure_region\"">>,
      <<"Error:", "Reference", "to", "undeclared", "input", "variable", "An", "input",
        "variable", "with", "the", "name", "\"azure_region\"", "has", "not", "been",
        "declared.">>,
      <<"terraform", "init">>,
      <<"##[error]", "Pipeline", "YAML">>,
      <<"compile", "ok">> }

RunLogs == Texts(RunLogLines, MaxRunLogLines)

RunRespLines ==
    { <<"CATEGORY:", "Configuration", "Error">>,
      <<"CONFIDENCE:", "0.49">>,
      <<"CONFIDENCE:", "0.5">>,
      <<"CONFIDENCE:", "0.64">>,
      <<"CONFIDENCE:", "0.65">>,
      <<"EXPLANATION:", "syntax", "error">> }

RunCompletions == Returning(Texts(RunRespLines, MaxRunRespLines)) \cup Raising

Outcomes == [github : {"created", "raises"}, work_item : {"bug", "task", "fail"}]

\* Messages and categories can_be_autofixed is applied to.
MessageLines ==
    { <<"syntax", "error">>,
      <<"Syntax", "error", "near", "invalid", "region">>,
      <<"expected", "a", "block">>,
      <<"expected", "string", "got", "number">>,
      <<"unexpected", "token", "got", "brace">>,
      <<"missing", "closing", "brace">>,
      <<"authentication", "failed">>,
      <<"authentication", "failed", "for", "wrong", "region">>,
      <<"state", "locked">>,
      <<"variable", "location", "was", "not", "set">>,
      <<"variable", "was", "not", "set">>,
      <<"provider", "crashed">> }

Messages == Texts(MessageLines, MaxMsgLines)

Categories ==
    {"TERRAFORM_ERROR", "TERRAFORM_MISSING_VARIABLE", "TERRAFORM_WRONG_REGION",
     "TERRAFORM_SYNTAX_ERROR", "UNKNOWN_ERROR", "UNKNOWN", "PIPELINE_YAML_ERROR"}

----------------------------------------------------------------------------
(* State *)

NoContext == [has_logs |-> FALSE, build_logs |-> <<>>, error |-> <<>>]

NoResult ==
    [category |-> "None", confidence |-> 0, explanation |-> <<>>, can_autofix |-> FALSE,
     suggested_fix |-> <<>>]

NoAction == [action |-> "None"]

NoCompletion == [raises |-> FALSE, error |-> <<>>, response |-> <<>>]

NoOutcomes == [github |-> "created", work_item |-> "bug"]

NoCalls ==
    [analyze |-> 0, build_logs |-> 0, last_success |-> 0, pr_changes |-> 0,
     autofix_attempted |-> FALSE, create_fix_pr |-> <<>>, create_work_item |-> <<>>, service_attempts |-> 0,
     work_items_created |-> 0, pull_requests_created |-> 0]

NoPolicy == [error_message |-> <<>>, category |-> "None", result |-> FALSE]

NoPrResult == [pr_id |-> "None", pr_url |-> "None", status |-> "None"]

NoFix == [main_tf |-> <<>>, fetch |-> "None", changes |-> <<>>]

NoRepo == [branches |-> {}, pulls |-> {}, runs |-> <<>>]

\* (None, None) of detect_error_pattern.
NoPattern == <<"None", 0>>

----------------------------------------------------------------------------
(* The classifier applied to a gathered context *)

AnalyzeWithAI ==
    /\ pc = "analyze"
    /\ LET r == analyze_with_ai(context, env, completion) IN
           IF r.exc
           THEN /\ raised' = "analyze_with_ai"
                /\ pc' = "done_500"
                /\ UNCHANGED rca_result
           ELSE /\ rca_result' = r.value
                /\ pc' = "remediate"
                /\ UNCHANGED raised
    /\ calls' = [calls EXCEPT !.analyze =
                     IF CompletionCalled(context, env) THEN @ + 1 ELSE @]
    /\ IF CompletionCalled(context, env)
       THEN /\ pattern' = detect_error_pattern(ContextLogs(context))
            /\ ai_result' = tf_analyze_with_ai(ContextLogs(context), completion)
       ELSE UNCHANGED <<pattern, ai_result>>
    /\ UNCHANGED <<env, failure_context, service_logs, completion, context,
                   action_result, outcomes, policy,
                   pr_result, fix, repo>>

InitClassify ==
    /\ pc = "analyze"
    /\ env = AllSet
    /\ failure_context = NoRequest
    /\ service_logs \in Logs
    /\ completion \in Completions
    /\ context = [has_logs |-> TRUE, build_logs |-> service_logs, error |-> <<>>]
    /\ rca_result = NoResult
    /\ action_result = NoAction
    /\ outcomes = NoOutcomes
    /\ calls = NoCalls
    /\ raised = "none"
    /\ policy = NoPolicy
    /\ pr_result = NoPrResult
    /\ fix = NoFix
    /\ repo = NoRepo
    /\ pattern = NoPattern
    /\ ai_result = NoResult

SpecClassify == InitClassify /\ [][AnalyzeWithAI]_vars

----------------------------------------------------------------------------
(* The Autofix Policy applied to a message and a category *)

CanBeAutofixed ==
    /\ pc = "policy"
    /\ policy' = [policy EXCEPT
                     !.result = can_be_autofixed(policy.error_message, policy.category)]
    /\ pc' = "policy_done"
    /\ UNCHANGED <<env, failure_context, service_logs, completion, context,
                   rca_result, action_result, outcomes, calls, raised,
                   pr_result, fix, repo,
                   pattern, ai_result>>

InitPolicy ==
    /\ pc = "policy"
    /\ env = AllSet
    /\ failure_context = NoRequest
    /\ service_logs = <<>>
    /\ completion = NoCompletion
    /\ context = NoContext
    /\ rca_result = NoResult
    /\ action_result = NoAction
    /\ outcomes = NoOutcomes
    /\ calls = NoCalls
    /\ raised = "none"
    /\ policy \in [error_message : Messages, category : Categories, result : {FALSE}]
    /\ pr_result = NoPrResult
    /\ fix = NoFix
    /\ repo = NoRepo
    /\ pattern = NoPattern
    /\ ai_result = NoResult

SpecPolicy == InitPolicy /\ [][CanBeAutofixed]_vars

----------------------------------------------------------------------------
(* The Detector Table applied to a log *)

DetectLogLines ==
    LogLines \cup { <<"Error:", "Invalid", "character">>,
                    <<"Extra", "characters", "after", "interpolation", "expression">>,
                    <<"invalid", "character">> }

DetectErrorPattern ==
    /\ pc = "detect"
    /\ pattern' = detect_error_pattern(service_logs)
    /\ pc' = "detected"
    /\ UNCHANGED <<env, failure_context, service_logs, completion, context,
                   rca_result, action_result, outcomes, calls, raised, policy,
                   pr_result, fix, repo, ai_result>>

InitDetect ==
    /\ pc = "detect"
    /\ env = AllSet
    /\ failure_context = NoRequest
    /\ service_logs \in Texts(DetectLogLines, MaxLogLines)
    /\ completion = NoCompletion
    /\ context = NoContext
    /\ rca_result = NoResult
    /\ action_result = NoAction
    /\ outcomes = NoOutcomes
    /\ calls = NoCalls
    /\ raised = "none"
    /\ policy = NoPolicy
    /\ pr_result = NoPrResult
    /\ fix = NoFix
    /\ repo = NoRepo
    /\ pattern = NoPattern
    /\ ai_result = NoResult

SpecDetect == InitDetect /\ [][DetectErrorPattern]_vars

----------------------------------------------------------------------------
(* shared/code_generator.py *)

\* Words of the form "NAME" (a quote, a name of [a-z_][a-z0-9_]*, a quote) and
\* the name in them; "my-var" in quotes is not of that form.
QuotedName ==
    [w \in {"\"azure_region\"", "\"db_name\""} |->
        IF w = "\"azure_region\"" THEN "azure_region" ELSE "db_name"]

\* Words that hold var.NAME, and the name.
VarRef ==
    [w \in {"var.location", "var.region"} |->
        IF w = "var.location" THEN "location" ELSE "region"]

\* The pairs <<n, i>> of a line and a word of the text, in reading order.
Positions(text) ==
    UNION { { <<n, i>> : i \in 1..Len(text[n]) } : n \in 1..Len(text) }

\* The first position of S in reading order.
FirstOf(S) ==
    CHOOSE p \in S : \A q \in S : p[1] < q[1] \/ (p[1] = q[1] /\ p[2] <= q[2])

\* re.search(r'variable with the name ["\']([a-z_][a-z0-9_]*)["\']', ...,
\* re.IGNORECASE) matches at word i of the line.
NamedAt(line, i) ==
    /\ i + 4 <= Len(line)
    /\ EndsWith(LowerWord(line[i]), "variable")
    /\ LowerWord(line[i + 1]) = "with"
    /\ LowerWord(line[i + 2]) = "the"
    /\ LowerWord(line[i + 3]) = "name"
    /\ line[i + 4] \in DOMAIN QuotedName

RECURSIVE Words(_)
Words(text) == IF text = <<>> THEN <<>> ELSE Head(text) \o Words(Tail(text))

\* re.findall(r'var\.([a-z_][a-z0-9_]*)', build_logs, re.IGNORECASE)
VarMatches(text) ==
    LET refs == SelectSeq(Words(text), LAMBDA w : w \in DOMAIN VarRef)
    IN  [k \in 1..Len(refs) |-> VarRef[refs[k]]]

\* Counter(matches).most_common(1)[0][0]: the most frequent name, the one met
\* first among equally frequent ones.
MostCommon(matches) ==
    LET Count(x) == Cardinality({k \in 1..Len(matches) : matches[k] = x})
        best == CHOOSE k \in 1..Len(matches) :
                    /\ \A j \in 1..Len(matches) : Count(matches[j]) <= Count(matches[k])
                    /\ \A j \in 1..(k - 1) : Count(matches[j]) < Count(matches[k])
    IN  matches[best]

extract_variable_name(build_logs) ==
    LET named == { p \in Positions(build_logs) : NamedAt(build_logs[p[1]], p[2]) }
        matches == VarMatches(build_logs)
    IN  IF named # {}
        THEN LET p == FirstOf(named) IN QuotedName[build_logs[p[1]][p[2] + 4]]
        ELSE IF matches # <<>> THEN MostCommon(matches)
        ELSE "None"

DefaultDirectory == "infrastructure/core/terraform"

\* Path words the pattern of strategy 1 matches (four directories before
\* infrastructure/) and the relative path captured.
WorkingDirectoryPath ==
    [w \in {"/home/vsts/work/1/infrastructure/envs/dev"} |-> "infrastructure/envs/dev"]

\* Words holding SourcesDirectory and, after it, infrastructure/test-apps/...
SourcesDirectoryPath ==
    [w \in {"$(Build.SourcesDirectory)/infrastructure/test-apps/infra-only/missing-variable"} |->
        "infrastructure/test-apps/infra-only/missing-variable"]

\* Words holding infrastructure/... (strategy 3) and the path captured.
CdPath ==
    [w \in {"$(Build.SourcesDirectory)/infrastructure/test-apps/infra-only/missing-variable",
            "infrastructure/envs/prod",
            "/home/vsts/work/1/infrastructure/envs/dev",
            "/home/vsts/work/1/s/infrastructure/envs/dev"} |->
        CASE w = "infrastructure/envs/prod" -> "infrastructure/envs/prod"
          [] w = "$(Build.SourcesDirectory)/infrastructure/test-apps/infra-only/missing-variable"
                -> "infrastructure/test-apps/infra-only/missing-variable"
          [] OTHER -> "infrastructure/envs/dev"]

\* Lines 106-115.
test_scenarios ==
    [p \in {"23", "24", "25"} |->
        CASE p = "23" -> "infrastructure/test-apps/infra-only/terraform/scenarios/missing-variable"
          [] p = "24" -> "infrastructure/test-apps/infra-only/terraform/scenarios/wrong-region"
          [] OTHER -> "infrastructure/test-apps/infra-only/terraform/scenarios/invalid-syntax"]

\* Strategy 1 (lines 64-73) matches at word i of the line.
WorkingDirectoryAt(line, i) ==
    /\ i + 2 <= Len(line)
    /\ EndsWith(LowerWord(line[i]), "working")
    /\ LowerWord(line[i + 1]) = "directory:"
    /\ line[i + 2] \in DOMAIN WorkingDirectoryPath

\* Word j of the line holds a path of the table and "cd" stands before it.
CdAt(line, j, table) ==
    /\ line[j] \in DOMAIN table
    /\ \E i \in 1..(j - 1) : line[i] = "cd"

\* Strategy 3 (lines 90-99): <<n, m, j>> with 'terraform init' in line n and a
\* cd into an infrastructure/ path at word j of line m, one of the ten lines
\* before n; the loops return at the first n, and there at the first m.
InitContexts(text) ==
    { t \in UNION { { <<p[1], q[1], q[2]>> : q \in Positions(text) } : p \in Positions(text) } :
        /\ LineContains(LowerLine(text[t[1]]), <<"terraform", "init">>)
        /\ t[2] < t[1]
        /\ t[2] >= t[1] - 10
        /\ CdAt(text[t[2]], t[3], CdPath) }

FirstContext(S) ==
    CHOOSE t \in S : \A u \in S :
        \/ t[1] < u[1]
        \/ (t[1] = u[1] /\ t[2] < u[2])
        \/ (t[1] = u[1] /\ t[2] = u[2] /\ t[3] >= u[3])

\* determine_filepath: the directory chosen and the file name.
determine_filepath(ctx, filename) ==
    LET build_logs == ctx.build_logs
        working == { p \in Positions(build_logs) :
                        WorkingDirectoryAt(build_logs[p[1]], p[2]) }
        sources == { p \in Positions(build_logs) :
                        CdAt(build_logs[p[1]], p[2], SourcesDirectoryPath) }
        inits == InitContexts(build_logs)
        pipeline_id == ctx.failure_info.pipeline_id
    IN  IF build_logs = <<>>
        THEN [dir |-> DefaultDirectory, file |-> filename]
        ELSE IF working # {}
        THEN LET p == FirstOf(working) IN
             [dir |-> WorkingDirectoryPath[build_logs[p[1]][p[2] + 2]], file |-> filename]
        ELSE IF sources # {}
        THEN LET p == FirstOf(sources) IN
             [dir |-> SourcesDirectoryPath[build_logs[p[1]][p[2]]], file |-> filename]
        ELSE IF inits # {}
        THEN LET t == FirstContext(inits) IN
             [dir |-> CdPath[build_logs[t[2]][t[3]]], file |-> filename]
        ELSE IF pipeline_id \in DOMAIN test_scenarios
        THEN [dir |-> test_scenarios[pipeline_id], file |-> filename]
        ELSE [dir |-> DefaultDirectory, file |-> filename]

\* A value between double quotes, as one word.
Quoted ==
    [v \in {"azure_region", "db_name", "location", "region", "eastus", "dev",
            "CHANGE_ME", "east-us"} |->
        CASE v = "azure_region" -> "\"azure_region\""
          [] v = "db_name" -> "\"db_name\""
          [] v = "location" -> "\"location\""
          [] v = "region" -> "\"region\""
          [] v = "eastus" -> "\"eastus\""
          [] v = "dev" -> "\"dev\""
          [] v = "CHANGE_ME" -> "\"CHANGE_ME\""
          [] OTHER -> "\"east-us\""]

\* defaults with the placeholder for every name.
DefaultsPlaceholderOnly(var_name) == "CHANGE_ME"

\* Lines 141-146 and 155.
defaults(var_name) ==
    CASE var_name \in {"azure_region", "location", "region"} -> "eastus"
      [] var_name = "environment" -> "dev"
      [] OTHER -> "CHANGE_ME"

\* Lines 148-153 and 156, as the description line of the block.
descriptions(var_name) ==
    CASE var_name = "azure_region" ->
             <<"description", "=", "\"Azure", "region", "for", "resource", "deployment\"">>
      [] var_name = "location" ->
             <<"description", "=", "\"Azure", "location", "for", "resources\"">>
      [] var_name = "region" -> <<"description", "=", "\"Deployment", "region\"">>
      [] var_name = "environment" -> <<"description", "=", "\"Environment", "name\"">>
      [] OTHER -> <<"description", "=", "\"Value", "for", var_name, "\"">>

\* Lines 158-163: the variable block, line by line.
terraform_code(var_name) ==
    << <<"variable", Quoted[var_name], "{">>,
       descriptions(var_name),
       <<"type", "=", "string">>,
       <<"default", "=", Quoted[defaults(var_name)]>>,
       <<"}">> >>

\* generate_missing_variable_fix: the {filepath: content} mapping as a sequence
\* of its entries, <<>> for {}.
generate_missing_variable_fix(explanation, ctx) ==
    IF ctx.build_logs = <<>> THEN <<>>
    ELSE LET var_name == extract_variable_name(ctx.build_logs) IN
         IF var_name = "None" THEN <<>>
         ELSE << [path |-> determine_filepath(ctx, "variables.tf"),
                  content |-> terraform_code(var_name)] >>

\* Quoted words the pattern "([a-z]+-[a-z-]+)" matches and the region in them;
\* "west-us-2" and "centralus" in quotes do not match.
RejectedRegion == [w \in {"\"east-us\""} |-> "east-us"]

\* re.search(r'"([a-z]+-[a-z-]+)" was not found', ..., re.IGNORECASE) matches at
\* word i of the line.
RejectedAt(line, i) ==
    /\ i + 3 <= Len(line)
    /\ line[i] \in DOMAIN RejectedRegion
    /\ LowerWord(line[i + 1]) = "was"
    /\ LowerWord(line[i + 2]) = "not"
    /\ StartsWith(LowerWord(line[i + 3]), "found")

\* Line 205 with the rejected region left as it is.
CorrectRegionUnchanged(wrong_region) == wrong_region

\* Line 206: wrong_region.replace('-', '').
correct_region(wrong_region) == [r \in {"east-us"} |-> "eastus"][wrong_region]

\* Lines 234-239: re.sub of location = "<wrong>" by location = "<correct>" in a
\* line of the file whose words are location, = and the quoted region.
FixLine(line, wrong_region) ==
    IF /\ Len(line) = 3
       /\ line[1] = "location"
       /\ line[2] = "="
       /\ line[3] = Quoted[wrong_region]
    THEN <<"location", "=", Quoted[correct_region(wrong_region)]>>
    ELSE line

\* generate_region_fix: git.fetch says whether repo.get_contents succeeds,
\* git.main_tf is the file it returns.
generate_region_fix(explanation, ctx, e, git) ==
    LET build_logs == ctx.build_logs
        rejected == { p \in Positions(build_logs) : RejectedAt(build_logs[p[1]], p[2]) }
    IN  IF build_logs = <<>> \/ rejected = {} THEN <<>>
        ELSE LET p == FirstOf(rejected)
                 wrong_region == RejectedRegion[build_logs[p[1]][p[2]]]
                 current_code == git.main_tf
                 fixed_code == [n \in 1..Len(current_code) |->
                                    FixLine(current_code[n], wrong_region)]
             IN  IF ~e.GITHUB_TOKEN \/ git.fetch # "ok" THEN <<>>
                 ELSE IF fixed_code = current_code THEN <<>>
                 ELSE << [path |-> determine_filepath(ctx, "main.tf"),
                          content |-> fixed_code] >>

generate_terraform_fix(rca, ctx, e, git) ==
    CASE rca.category = "TERRAFORM_MISSING_VARIABLE" ->
             generate_missing_variable_fix(rca.explanation, ctx)
      [] rca.category = "TERRAFORM_WRONG_REGION" ->
             generate_region_fix(rca.explanation, ctx, e, git)
      [] OTHER -> <<>>

\* The context handed to the generator: the failure report and the build logs.
GeneratorContext == [failure_info |-> failure_context, build_logs |-> ContextLogs(context)]

----------------------------------------------------------------------------
(* The classifier and the Fix Generator applied to a log *)

MaxFixLogLines == 2

FixLogLines ==
    { <<"Error:", "Reference", "to", "undeclared", "input", "variable", "\"azure_region\"">>,
      <<"An", "input", "variable", "with", "the", "name", "\"azure_region\"", "has", "not",
        "been", "declared.">>,
      <<"An", "input", "variable", "with", "the", "name", "\"db_name\"", "has", "not",
        "been", "declared.">>,
      <<"location", "=", "var.location">>,
      <<"region", "=", "var.region">>,
      <<"\"east-us\"", "was", "not", "found", "in", "the", "list", "of", "supported",
        "Azure", "Locations">>,
      <<"Error:", "\"west-us-2\"", "was", "not", "found", "in", "the", "list", "of",
        "supported", "Azure", "Locations">>,
      <<"terraform", "init">>,
      <<"Working", "directory:", "/home/vsts/work/1/infrastructure/envs/dev">>,
      <<"cd", "$(Build.SourcesDirectory)/infrastructure/test-apps/infra-only/missing-variable">>,
      <<"cd", "infrastructure/envs/prod">> }

FixCompletions ==
    Returning({ << <<"CATEGORY:", "Configuration", "Error">>, <<"CAN_AUTOFIX:", "True">> >>,
                << <<"CATEGORY:", "Syntax", "Error">>, <<"CAN_AUTOFIX:", "False">> >>,
                << <<"EXPLANATION:", "invalid", "character", "in", "the", "file">> >> })
        \cup { [raises |-> TRUE, error |-> <<"rate", "limit">>, response |-> <<>>] }

\* main.tf as the repository holds it.
MainTfFiles ==
    { << <<"location", "=", "\"east-us\"">> >>,
      << <<"name", "=", "\"rg\"">>, <<"location", "=", "\"east-us\"">> >>,
      << <<"location", "=", "var.location">> >> }

\* What the generator has fetched and produced: nothing yet; the fetch of
\* main.tf will succeed with one of the files, or raise.
FixInputs ==
    [main_tf : MainTfFiles, fetch : {"ok"}, changes : {<<>>}]
        \cup { [main_tf |-> <<>>, fetch |-> "raises", changes |-> <<>>] }

GenerateTerraformFix ==
    /\ pc = "remediate"
    /\ fix.fetch # "None"
    /\ fix' = [fix EXCEPT
                  !.changes = generate_terraform_fix(rca_result, GeneratorContext, env, fix)]
    /\ pc' = "fixed"
    /\ UNCHANGED <<env, failure_context, service_logs, completion, context,
                   rca_result, action_result, outcomes, calls, raised, policy,
                   pr_result, repo,
                   pattern, ai_result>>

InitFix ==
    /\ pc = "analyze"
    /\ env \in {AllSet, [AllSet EXCEPT !.GITHUB_TOKEN = FALSE]}
    /\ failure_context \in {GithubReport, [GithubReport EXCEPT !.pipeline_id = "None"]}
    /\ service_logs \in Texts(FixLogLines, MaxFixLogLines)
    /\ completion \in FixCompletions
    /\ context = [has_logs |-> TRUE, build_logs |-> service_logs, error |-> <<>>]
    /\ rca_result = NoResult
    /\ action_result = NoAction
    /\ outcomes = NoOutcomes
    /\ calls = NoCalls
    /\ raised = "none"
    /\ policy = NoPolicy
    /\ pr_result = NoPrResult
    /\ fix \in FixInputs
    /\ repo = NoRepo
    /\ pattern = NoPattern
    /\ ai_result = NoResult

SpecFix == InitFix /\ [][AnalyzeWithAI \/ GenerateTerraformFix]_vars

----------------------------------------------------------------------------
(* execute_remediation's handling of what create_fix_pr returned *)

\* What a collaborator can return: a number, a URL and a status - the code's
\* two statuses, the interface's "duplicate", or none.
PrResults ==
    [pr_id : {"11", "12", "13", "14", "15", "16", "17"},
     pr_url : {"https://github.com/opscart/app/pull", "https://github.com/opscart/infra/pull"},
     status : {"created", "duplicate_prevented", "duplicate", "None"}]

HandlePrResult ==
    /\ pc = "pr_returned"
    /\ action_result' = PrResultAction(pr_result)
    /\ pc' = "pr_handled"
    /\ UNCHANGED <<env, failure_context, service_logs, completion, context,
                   rca_result, outcomes, calls, raised, policy, pr_result, fix, repo,
                   pattern, ai_result>>

InitPrResult ==
    /\ pc = "pr_returned"
    /\ env = AllSet
    /\ failure_context = GithubReport
    /\ service_logs = <<>>
    /\ completion = NoCompletion
    /\ context = NoContext
    /\ rca_result = NoResult
    /\ action_result = NoAction
    /\ outcomes = NoOutcomes
    /\ calls = NoCalls
    /\ raised = "none"
    /\ policy = NoPolicy
    /\ pr_result \in PrResults
    /\ fix = NoFix
    /\ repo = NoRepo
    /\ pattern = NoPattern
    /\ ai_result = NoResult

SpecPrResult == InitPrResult /\ [][HandlePrResult]_vars

----------------------------------------------------------------------------
(* github_operations.py: create_fix_pr called by runs that process the same
   failure (same repository, base branch and category), step by step against
   the shared repository *)

NumRuns == 2

RunIds == 1..NumRuns

\* The values os.urandom(4).hex() gives the runs.
Suffixes == {"0a1b2c3d", "4e5f6a7b", "8c9d0e1f"}

FixCategory == "terraform-missing-variable"

BaseBranch == "main"

NewRun == [pc |-> "start", branch |-> "None", status |-> "None", ref_created |-> FALSE]

\* Lines 62-64: the fix branch is named after the category and a random suffix.
NameBranch(r) ==
    /\ pc = "github"
    /\ repo.runs[r].pc = "start"
    /\ \E suffix \in Suffixes :
           repo' = [repo EXCEPT !.runs[r] =
                       [@ EXCEPT !.pc = "ref",
                                 !.branch = [category |-> FixCategory, suffix |-> suffix]]]
    /\ UNCHANGED <<pc, env, failure_context, service_logs, completion, context,
                   rca_result, action_result, outcomes, calls, raised, policy,
                   pr_result, fix,
                   pattern, ai_result>>

\* Lines 68-88: the branch is created from the base branch; GitHub rejects a
\* reference that exists, the lookup of the base reference or the creation can
\* fail, and the method re-raises (lines 228-232) with nothing undone.
CreateGitRef(r) ==
    /\ pc = "github"
    /\ repo.runs[r].pc = "ref"
    /\ \E accepted \in BOOLEAN :
           IF repo.runs[r].branch \in repo.branches \/ ~accepted
           THEN repo' = [repo EXCEPT !.runs[r] = [@ EXCEPT !.pc = "raised"]]
           ELSE repo' = [repo EXCEPT !.branches = @ \cup {repo.runs[r].branch},
                                     !.runs[r] = [@ EXCEPT !.pc = "commit",
                                                           !.ref_created = TRUE]]
    /\ UNCHANGED <<pc, env, failure_context, service_logs, completion, context,
                   rca_result, action_result, outcomes, calls, raised, policy,
                   pr_result, fix,
                   pattern, ai_result>>

\* Lines 90-167: the file changes, or the fix-suggestion document when there
\* are none, are committed to the fix branch, unless the service fails.
CommitFiles(r) ==
    /\ pc = "github"
    /\ repo.runs[r].pc = "commit"
    /\ \E accepted \in BOOLEAN :
           repo' = [repo EXCEPT !.runs[r] =
                       [@ EXCEPT !.pc = IF accepted THEN "pull" ELSE "raised"]]
    /\ UNCHANGED <<pc, env, failure_context, service_logs, completion, context,
                   rca_result, action_result, outcomes, calls, raised, policy,
                   pr_result, fix,
                   pattern, ai_result>>

\* Lines 203-226: the pull request from the fix branch to the base branch is
\* created and reported with status "created", unless the service fails.
CreatePull(r) ==
    /\ pc = "github"
    /\ repo.runs[r].pc = "pull"
    /\ \E accepted \in BOOLEAN :
           IF accepted
           THEN repo' = [repo EXCEPT
                            !.pulls = @ \cup {[head |-> repo.runs[r].branch,
                                               base |-> BaseBranch]},
                            !.runs[r] = [@ EXCEPT !.pc = "returned", !.status = "created"]]
           ELSE repo' = [repo EXCEPT !.runs[r] = [@ EXCEPT !.pc = "raised"]]
    /\ UNCHANGED <<pc, env, failure_context, service_logs, completion, context,
                   rca_result, action_result, outcomes, calls, raised, policy,
                   pr_result, fix,
                   pattern, ai_result>>

InitGithub ==
    /\ pc = "github"
    /\ env = AllSet
    /\ failure_context = GithubReport
    /\ service_logs = <<>>
    /\ completion = NoCompletion
    /\ context = NoContext
    /\ rca_result = NoResult
    /\ action_result = NoAction
    /\ outcomes = NoOutcomes
    /\ calls = NoCalls
    /\ raised = "none"
    /\ policy = NoPolicy
    /\ pr_result = NoPrResult
    /\ fix = NoFix
    /\ repo = [branches |-> {}, pulls |-> {}, runs |-> [r \in RunIds |-> NewRun]]
    /\ pattern = NoPattern
    /\ ai_result = NoResult

SpecGithub ==
    InitGithub
    /\ [][\E r \in RunIds :
            \/ NameBranch(r)
            \/ CreateGitRef(r)
            \/ CommitFiles(r)
            \/ CreatePull(r)]_vars

----------------------------------------------------------------------------
(* function_app.py: handle_failure, one run *)

\* Lines 49-55: the required fields.
Validate ==
    /\ pc = "validate"
    /\ pc' = IF failure_context.build_id = "None" \/ failure_context.project_name = "None"
             THEN "done_400"
             ELSE "gather"
    /\ UNCHANGED <<env, failure_context, service_logs, completion, context,
                   rca_result, action_result, outcomes, calls, raised, policy,
                   pr_result, fix, repo,
                   pattern, ai_result>>

\* Line 62.
GatherFailureContext ==
    /\ pc = "gather"
    /\ LET r == gather_failure_context(failure_context, env, service_logs)
           f == GatherFetches(failure_context, env)
       IN  /\ IF r.exc
              THEN /\ raised' = "gather_failure_context"
                   /\ pc' = "done_500"
                   /\ UNCHANGED context
              ELSE /\ context' = r.value
                   /\ pc' = "analyze"
                   /\ UNCHANGED raised
           /\ calls' = [calls EXCEPT !.build_logs = @ + f.build_logs,
                                     !.last_success = @ + f.last_success,
                                     !.pr_changes = @ + f.pr_changes]
    /\ UNCHANGED <<env, failure_context, service_logs, completion, rca_result,
                   action_result, outcomes, policy,
                   pr_result, fix, repo,
                   pattern, ai_result>>

\* Line 70.
ExecuteRemediation ==
    /\ pc = "remediate"
    /\ LET r == execute_remediation(rca_result, failure_context, env, outcomes) IN
           /\ IF r.exc
              THEN /\ raised' = "execute_remediation"
                   /\ pc' = "done_500"
                   /\ UNCHANGED action_result
              ELSE /\ action_result' = r.value
                   /\ pc' = "respond"
                   /\ UNCHANGED raised
           /\ calls' = [calls EXCEPT
                 !.autofix_attempted = r.effects.autofix_attempted,
                 !.create_fix_pr = @ \o r.effects.create_fix_pr,
                 !.create_work_item = @ \o r.effects.create_work_item,
                 !.service_attempts = @ + r.effects.service_attempts,
                 !.work_items_created = @ + r.effects.work_items_created,
                 !.pull_requests_created = @ + r.effects.pull_requests_created]
    /\ UNCHANGED <<env, failure_context, service_logs, completion, context,
                   rca_result, outcomes, policy,
                   pr_result, fix, repo,
                   pattern, ai_result>>

\* Lines 72-91: the 202 response carrying the classification and the action.
Respond ==
    /\ pc = "respond"
    /\ pc' = "done_202"
    /\ UNCHANGED <<env, failure_context, service_logs, completion, context,
                   rca_result, action_result, outcomes, calls, raised, policy,
                   pr_result, fix, repo,
                   pattern, ai_result>>

Init ==
    /\ pc = "validate"
    /\ env \in Envs
    /\ failure_context \in Requests
    /\ service_logs \in RunLogs
    /\ completion \in RunCompletions
    /\ outcomes \in Outcomes
    /\ context = NoContext
    /\ rca_result = NoResult
    /\ action_result = NoAction
    /\ calls = NoCalls
    /\ raised = "none"
    /\ policy = NoPolicy
    /\ pr_result = NoPrResult
    /\ fix = NoFix
    /\ repo = NoRepo
    /\ pattern = NoPattern
    /\ ai_result = NoResult

Next ==
    \/ Validate
    \/ GatherFailureContext
    \/ AnalyzeWithAI
    \/ ExecuteRemediation
    \/ Respond

Spec == Init /\ [][Next]_vars

----------------------------------------------------------------------------
(* Claims *)

Classified == rca_result.category # "None"

\* The run classified its log on the Terraform path.
TerraformPath ==
    /\ Classified
    /\ ~OpenAIClientRaises(env)
    /\ is_terraform_failure(ContextLogs(context))

UndeclaredVariablePhrase == <<"Reference", "to", "undeclared", "input", "variable">>

\* C1: the classifier's confidence always lies in [0.0, 0.95].
C1_ConfidenceInRange ==
    Classified => (0 <= rca_result.confidence /\ rca_result.confidence <= ConfidenceCap)

\* C2: on the Terraform path, a final explanation that matches a manual-review
\* pattern gives can_autofix = false, whatever the category and the hint.
C2_ManualReviewNeverAutofix ==
    (TerraformPath /\ MatchesManualReview(Lower(rca_result.explanation)))
        => ~rca_result.can_autofix

\* C3: can_be_autofixed returns false for every message that matches a
\* manual-review pattern, also when it matches a definitely-safe pattern or the
\* category is one of the two autofixable ones.
C3_ManualReviewFirst ==
    (pc = "policy_done" /\ MatchesManualReview(Lower(policy.error_message)))
        => policy.result = FALSE

\* C4 as stated: a log with the undeclared-variable phrase and no manual-review
\* pattern is classified MISSING_VARIABLE with confidence >= 0.95, for every
\* completion response.
C4_Original ==
    (/\ Classified
     /\ Contains(ContextLogs(context), UndeclaredVariablePhrase)
     /\ ~MatchesManualReview(Lower(ContextLogs(context))))
        => /\ rca_result.category = "TERRAFORM_MISSING_VARIABLE"
           /\ rca_result.confidence >= PatternConfidence95

\* C5: when the completion call raises on the Terraform path the result is
\* UNKNOWN_ERROR with confidence 0.3, can_autofix false and the error text in the
\* explanation, for every log.
C5_CompletionFailureResult ==
    (TerraformPath /\ completion.raises)
        => /\ rca_result.category = "UNKNOWN_ERROR"
           /\ rca_result.confidence = FallbackConfidence
           /\ ~rca_result.can_autofix
           /\ Contains(rca_result.explanation, completion.error)

\* The completion call's own result on the run's log, before the pattern hint.
CompletionResult == tf_analyze_with_ai(ContextLogs(context), completion)

\* C4 (amended): on the Terraform path a log with the undeclared-variable phrase
\* and no manual-review pattern is classified MISSING_VARIABLE; its confidence is
\* >= 0.95 when the completion call raised or its own category was another one,
\* and is the completion's own confidence when the completion agreed.
C4_PatternHintOnTerraformPath ==
    (/\ TerraformPath
     /\ Contains(ContextLogs(context), UndeclaredVariablePhrase)
     /\ ~MatchesManualReview(Lower(ContextLogs(context))))
        => /\ rca_result.category = "TERRAFORM_MISSING_VARIABLE"
           /\ completion.raises => rca_result.confidence >= PatternConfidence95
           /\ CompletionResult.category # "TERRAFORM_MISSING_VARIABLE"
                  => rca_result.confidence >= PatternConfidence95
           /\ CompletionResult.category = "TERRAFORM_MISSING_VARIABLE"
                  => rca_result.confidence = CompletionResult.confidence

C4_Witness ==
    /\ TerraformPath
    /\ Contains(ContextLogs(context), UndeclaredVariablePhrase)
    /\ ~MatchesManualReview(Lower(ContextLogs(context)))
    /\ ~completion.raises
    /\ CompletionResult.category = "TERRAFORM_SYNTAX_ERROR"
    /\ CompletionResult.confidence = SyntaxErrorConfidence
    /\ rca_result.category = "TERRAFORM_MISSING_VARIABLE"
    /\ rca_result.confidence = PatternConfidence95

\* execute_remediation has returned.
RunDone == pc \in {"respond", "done_202"}

\* C6: no exception escapes gather_failure_context, analyze_with_ai or
\* execute_remediation, whichever collaborators fail; every run past the
\* classifier holds a classification and every run past remediation an action.
C6_NoExceptionEscapes ==
    /\ raised = "none"
    /\ pc # "done_500"
    /\ pc \in {"remediate", "respond", "done_202"}
           => /\ rca_result.category \in Categories
              /\ rca_result.confidence \in Int
    /\ RunDone => action_result.action # "None"

C6_Witness ==
    /\ pc = "done_202"
    /\ AdoClientRaises(env) /\ OpenAIClientRaises(env) /\ GitHubOperationsRaises(env)
    /\ ~context.has_logs
    /\ rca_result.category = "UNKNOWN"
    /\ action_result.action = "ERROR"

SpecActionTags ==
    {"AUTO_FIX_PR_CREATED", "EXISTING_PR_FOUND", "WORK_ITEM_CREATED",
     "RCA_COMMENT_POSTED", "SKIPPED", "ERROR"}

PrCreationRaised ==
    /\ RunDone
    /\ calls.autofix_attempted
    /\ calls.pull_requests_created = 0

OnGithub == IsGithub(failure_context.repo_url)

PrFailureReason ==
    CASE OnGithub /\ GitHubOperationsRaises(env) -> GithubTokenMessage
      [] OnGithub /\ ~GitHubOperationsRaises(env) -> GithubErrorMessage
      [] ~OnGithub /\ failure_context.source_branch = "None" -> NoneBranchMessage
      [] OTHER -> UnexpectedKeywordMessage

\* C8: when PR creation raises, on either path, one work item is
\* created whose description embeds the failure reason, and the action is
\* WORK_ITEM_CREATED.
C8_Original ==
    PrCreationRaised
        => /\ action_result.action = "WORK_ITEM_CREATED"
           /\ Len(calls.create_work_item) = 1
           /\ Contains(calls.create_work_item[1].description.prefix, PrFailureReason)

\* C9: the create-fix-PR path is taken if and only if confidence >= 0.65 and
\* can_autofix is true, and create_fix_pr is called on that path only.
C9_AutofixThreshold ==
    RunDone
        => /\ calls.autofix_attempted
                  <=> (rca_result.confidence >= AutofixThreshold /\ rca_result.can_autofix)
           /\ calls.create_fix_pr # <<>> => calls.autofix_attempted

C9_Witness ==
    /\ RunDone
    /\ rca_result.confidence = AutofixThreshold
    /\ rca_result.can_autofix
    /\ calls.autofix_attempted
    /\ Len(calls.create_fix_pr) = 1

ManualInvestigation == <<"manual", "investigation", "required">>

WorkItemCase ==
    /\ RunDone
    /\ rca_result.confidence >= WorkItemThreshold
    /\ ~(rca_result.confidence >= AutofixThreshold /\ rca_result.can_autofix)

\* C11: whenever confidence >= 0.5 and the PR path is not taken,
\* execute_remediation calls create_work_item exactly once, with the formatted
\* description (build number, stage, job, category, confidence, explanation,
\* suggested fix, build link) and nothing before it, and returns
\* WORK_ITEM_CREATED.
C11_WorkItemForMediumConfidence ==
    WorkItemCase
        => /\ Len(calls.create_work_item) = 1
           /\ calls.create_fix_pr = <<>>
           /\ action_result.action = "WORK_ITEM_CREATED"
           /\ LET d == calls.create_work_item[1].description IN
                  /\ d.prefix = <<>>
                  /\ d.body.build = failure_context.build_number
                  /\ d.body.stage = failure_context.failed_stage
                  /\ d.body.job = failure_context.failed_job
                  /\ d.body.category = rca_result.category
                  /\ d.body.confidence = rca_result.confidence
                  /\ d.body.explanation = rca_result.explanation
                  /\ d.body.suggested_fix # <<>>
                  /\ d.body.build_link = <<failure_context.organization_url,
                                           failure_context.project_name,
                                           failure_context.build_id>>

C11_Witness ==
    /\ pc = "done_202"
    /\ rca_result.confidence = WorkItemThreshold
    /\ rca_result.can_autofix
    /\ action_result.action = "WORK_ITEM_CREATED"
    /\ Len(calls.create_work_item) = 1
    /\ calls.create_work_item[1].description.body.build_link[3] = "4711"

\* C14: when the failure report carries a pull-request id, confidence >= 0.5 and
\* the create-fix-PR path is not taken, the action is RCA_COMMENT_POSTED and no
\* work item is created.
C14_CommentOnPullRequest ==
    (WorkItemCase /\ failure_context.pr_id # "None")
        => /\ action_result.action = "RCA_COMMENT_POSTED"
           /\ calls.create_work_item = <<>>

\* A required credential or a required request field is missing.
MissingConfiguration ==
    \/ env # AllSet
    \/ failure_context.build_id = "None"
    \/ failure_context.project_name = "None"

\* C15: if a required credential or request field is missing, no external call is
\* made in the run: no log fetch, completion call, PR creation or work-item
\* creation.
C15_AbortBeforeExternalCalls ==
    MissingConfiguration
        => /\ calls.build_logs = 0
           /\ calls.last_success = 0
           /\ calls.pr_changes = 0
           /\ calls.analyze = 0
           /\ calls.create_fix_pr = <<>>
           /\ calls.create_work_item = <<>>

\* C16 as stated: the completion is called at most once, create_fix_pr at most
\* once, and the work-tracking service is asked to create a work item at most
\* once.
C16_Original ==
    /\ calls.analyze <= 1
    /\ Len(calls.create_fix_pr) <= 1
    /\ calls.service_attempts <= 1

\* C16 (amended): in every run the completion is called at most once,
\* create_fix_pr at most once and create_work_item at most once; within
\* create_work_item the service is asked at most twice (a Bug, then a Task when
\* the Bug is rejected) and at most one work item is created.
C16_AtMostOnce ==
    /\ calls.analyze <= 1
    /\ Len(calls.create_fix_pr) <= 1
    /\ Len(calls.create_work_item) <= 1
    /\ calls.service_attempts <= 2
    /\ calls.work_items_created <= 1
    /\ calls.service_attempts = 2 => outcomes.work_item # "bug"

C16_Witness ==
    /\ pc = "done_202"
    /\ calls.analyze = 1
    /\ Len(calls.create_fix_pr) = 1
    /\ Len(calls.create_work_item) = 1
    /\ calls.service_attempts = 2
    /\ calls.work_items_created = 1

\* C17: for every log that contains 'Missing closing brace' and every completion
\* the classification has can_autofix = false.
C17_MissingBraceNeverAutofix ==
    (Classified /\ Contains(ContextLogs(context), <<"Missing", "closing", "brace">>))
        => ~rca_result.can_autofix

C13_AtMostOneFixPr ==
    /\ Cardinality(repo.pulls) <= 1
    /\ Cardinality(repo.branches) <= 1
    /\ \A r, q \in RunIds :
           (r # q /\ repo.runs[r].pc = "returned" /\ repo.runs[q].pc = "returned")
               => \/ repo.runs[r].status \in {"duplicate", "duplicate_prevented"}
                  \/ repo.runs[q].status \in {"duplicate", "duplicate_prevented"}

\* The explanation wording for which analyze_terraform_failure refuses the
\* automatic fix whatever the category.
SyntaxExplanation ==
    LET explanation == Lower(rca_result.explanation) IN
    \/ Contains(explanation, <<"invalid", "character">>)
    \/ (Contains(explanation, <<"syntax", "error">>)
        /\ Contains(explanation, <<"missing", "closing", "brace">>))

\* The variables Terraform's message 'An input variable with the name "X" has
\* not been declared' names in the log.
DeclaredNames ==
    { X \in {"azure_region", "db_name"} :
        Contains(ContextLogs(context), <<"variable", "with", "the", "name", Quoted[X]>>) }

\* The generator produced one file whose content is the block of variable X with
\* the given default.
DeclaresVariable(X, default) ==
    /\ Len(fix.changes) = 1
    /\ fix.changes[1].path.file = "variables.tf"
    /\ fix.changes[1].content[1] = <<"variable", Quoted[X], "{">>
    /\ \E n \in 1..Len(fix.changes[1].content) :
           fix.changes[1].content[n] = <<"default", "=", Quoted[default]>>

\* C18 as stated: for a log with the line
\* Error: Reference to undeclared input variable "azure_region"
\* the category is MISSING_VARIABLE, can_autofix is true and
\* generate_terraform_fix yields a patch declaring variable "azure_region" with
\* the table default eastus.
C18_Original ==
    (/\ pc = "fixed"
     /\ Contains(ContextLogs(context),
                 <<"Error:">> \o UndeclaredVariablePhrase \o <<"\"azure_region\"">>))
        => /\ rca_result.category = "TERRAFORM_MISSING_VARIABLE"
           /\ rca_result.can_autofix
           /\ DeclaresVariable("azure_region", "eastus")

\* C18: a log with 'Error: Reference to undeclared input variable' is
\* classified MISSING_VARIABLE, with can_autofix true unless the explanation
\* has the syntax wording; when the log also carries Terraform's message 'An
\* input variable with the name "X" has not been declared' for one variable X,
\* generate_terraform_fix yields one file, variables.tf, declaring variable "X"
\* with the default eastus for azure_region and CHANGE_ME for a name outside
\* the table; when the log has neither that message nor a var.NAME reference,
\* as the one-line log of the scenario, the generator yields no patch.
C18_MissingVariableFix ==
    (/\ pc = "fixed"
     /\ Contains(ContextLogs(context), <<"Error:">> \o UndeclaredVariablePhrase))
        => /\ rca_result.category = "TERRAFORM_MISSING_VARIABLE"
           /\ rca_result.can_autofix = ~SyntaxExplanation
           /\ DeclaredNames = {"azure_region"} => DeclaresVariable("azure_region", "eastus")
           /\ DeclaredNames = {"db_name"} => DeclaresVariable("db_name", "CHANGE_ME")
           /\ (DeclaredNames = {} /\ VarMatches(ContextLogs(context)) = <<>>)
                  => fix.changes = <<>>

C18_Witness ==
    /\ pc = "fixed"
    /\ Contains(ContextLogs(context),
                <<"Error:">> \o UndeclaredVariablePhrase \o <<"\"azure_region\"">>)
    /\ DeclaredNames = {"azure_region"}
    /\ rca_result.can_autofix
    /\ DeclaresVariable("azure_region", "eastus")

RejectedRegionPhrase ==
    <<"\"east-us\"", "was", "not", "found", "in", "the", "list", "of", "supported",
      "Azure", "Locations">>

\* main.tf holds the assignment location = "east-us" on a line.
MainTfHasRejectedRegion ==
    \E n \in 1..Len(fix.main_tf) : fix.main_tf[n] = <<"location", "=", "\"east-us\"">>

\* The patch is main.tf with every location = "east-us" turned into
\* location = "eastus" and every other line kept.
RegionCorrected ==
    /\ Len(fix.changes) = 1
    /\ fix.changes[1].path.file = "main.tf"
    /\ Len(fix.changes[1].content) = Len(fix.main_tf)
    /\ \A n \in 1..Len(fix.main_tf) :
           fix.changes[1].content[n] =
               IF fix.main_tf[n] = <<"location", "=", "\"east-us\"">>
               THEN <<"location", "=", "\"eastus\"">>
               ELSE fix.main_tf[n]

\* C19 as stated: for a log with
\* "east-us" was not found in the list of supported Azure Locations
\* the category is WRONG_REGION, can_autofix is true and the fix path produces
\* the region eastus.
C19_Original ==
    (pc = "fixed" /\ Contains(ContextLogs(context), RejectedRegionPhrase))
        => /\ rca_result.category = "TERRAFORM_WRONG_REGION"
           /\ rca_result.can_autofix
           /\ fix.changes # <<>> => RegionCorrected

\* C19: a log with that message which the Terraform path takes (it holds a
\* Terraform keyword) and which has no undeclared-variable message is classified
\* WRONG_REGION, with can_autofix true unless the explanation has the syntax
\* wording; the region the fix path writes is the rejected one without its
\* hyphens, eastus, and the patch exists exactly when GITHUB_TOKEN is set,
\* main.tf can be fetched and it assigns location = "east-us".  The message alone
\* holds no Terraform keyword and is not classified WRONG_REGION.
C19_WrongRegionFix ==
    /\ (/\ pc = "fixed"
        /\ TerraformPath
        /\ Contains(ContextLogs(context), RejectedRegionPhrase)
        /\ ~Contains(ContextLogs(context), UndeclaredVariablePhrase))
           => /\ rca_result.category = "TERRAFORM_WRONG_REGION"
              /\ rca_result.can_autofix = ~SyntaxExplanation
              /\ fix.changes # <<>>
                     <=> (env.GITHUB_TOKEN /\ fix.fetch = "ok" /\ MainTfHasRejectedRegion)
              /\ fix.changes # <<>> => RegionCorrected
    /\ (pc = "fixed" /\ ContextLogs(context) = <<RejectedRegionPhrase>>)
           => /\ rca_result.category # "TERRAFORM_WRONG_REGION"
              /\ ~rca_result.can_autofix
              /\ fix.changes = <<>>

C19_Witness ==
    /\ pc = "fixed"
    /\ TerraformPath
    /\ Contains(ContextLogs(context), RejectedRegionPhrase)
    /\ rca_result.category = "TERRAFORM_WRONG_REGION"
    /\ rca_result.can_autofix
    /\ Len(fix.main_tf) = 2
    /\ RegionCorrected

\* What generate_terraform_fix yields for the classification and the context
\* of the run.
GeneratorOutput == generate_terraform_fix(rca_result, GeneratorContext, env, fix)

\* C20: in every run classified MISSING_VARIABLE or WRONG_REGION in which
\* create_fix_pr is called, the file changes handed to create_fix_pr are what
\* the Fix Generator yields for the classification and the context.
C20_FixGeneratorFeedsPr ==
    (rca_result.category \in {"TERRAFORM_MISSING_VARIABLE", "TERRAFORM_WRONG_REGION"})
        => \A i \in 1..Len(calls.create_fix_pr) :
               calls.create_fix_pr[i].file_changes = GeneratorOutput

\* The rules of the Detector Table, as the phrases a log holds.
MatchesVariableRule(logs) == Contains(logs, UndeclaredVariablePhrase)

MatchesRegionRule(logs) ==
    Contains(logs, <<"was", "not", "found", "in", "the", "list", "of", "supported",
                     "Azure", "Locations">>)

MatchesSyntaxRule(logs) ==
    \/ Contains(logs, <<"Invalid", "character">>)
    \/ Contains(logs, <<"Extra", "characters", "after", "interpolation">>)
    \/ Contains(logs, <<"Missing", "closing", "brace">>)

\* C21: detect_error_pattern is a priority list, first match wins: the
\* undeclared-variable phrase gives (MISSING_VARIABLE, 0.95) whatever else the
\* log matches; otherwise the unsupported-location phrase gives (WRONG_REGION,
\* 0.90) even with a syntax phrase in the log; otherwise one of the three syntax
\* phrases gives (SYNTAX_ERROR, 0.95); a log matching none gives (None, None).
C21_DetectorPriority ==
    pc = "detected"
        => /\ MatchesVariableRule(service_logs)
                  => pattern = <<"TERRAFORM_MISSING_VARIABLE", 95>>
           /\ (~MatchesVariableRule(service_logs) /\ MatchesRegionRule(service_logs))
                  => pattern = <<"TERRAFORM_WRONG_REGION", 90>>
           /\ (/\ ~MatchesVariableRule(service_logs)
               /\ ~MatchesRegionRule(service_logs)
               /\ MatchesSyntaxRule(service_logs))
                  => pattern = <<"TERRAFORM_SYNTAX_ERROR", 95>>
           /\ (/\ ~MatchesVariableRule(service_logs)
               /\ ~MatchesRegionRule(service_logs)
               /\ ~MatchesSyntaxRule(service_logs))
                  => pattern = <<"None", 0>>

C21_Witness ==
    /\ pc = "detected"
    /\ MatchesVariableRule(service_logs)
    /\ MatchesRegionRule(service_logs)
    /\ pattern = <<"TERRAFORM_MISSING_VARIABLE", 95>>

\* C22: the pre-filter of function_app.analyze_with_ai selects one path per
\* run, in fixed order: the Terraform path (the only one that calls the
\* completion) for a log with a Terraform keyword, in any case; otherwise the
\* pipeline-YAML path for a log with a YAML keyword; otherwise the generic path,
\* which returns UNKNOWN_ERROR with confidence 0.3 for a log containing 'error'
\* or 'failed' and UNKNOWN with confidence 0.0 for a log with neither, can_autofix
\* false in both cases.
C22_PreFilterSelectsPath ==
    Classified
        => LET logs == ContextLogs(context) IN
           IF is_terraform_failure(logs)
           THEN calls.analyze = 1
           ELSE IF is_pipeline_yaml_failure(logs)
           THEN /\ rca_result.category = "PIPELINE_YAML_ERROR"
                /\ calls.analyze = 0
           ELSE IF Contains(Lower(logs), <<"error">>) \/ Contains(Lower(logs), <<"failed">>)
           THEN /\ rca_result.category = "UNKNOWN_ERROR"
                /\ rca_result.confidence = 30
                /\ ~rca_result.can_autofix
                /\ calls.analyze = 0
           ELSE /\ rca_result.category = "UNKNOWN"
                /\ rca_result.confidence = 0
                /\ ~rca_result.can_autofix
                /\ calls.analyze = 0

\* The keyword sets of the overrides, on the lower-cased explanation the
\* completion-parsing step works with (the whole response).
SyntaxKeywords(explanation_lower) ==
    \/ Contains(explanation_lower, <<"syntax", "error">>)
    \/ Contains(explanation_lower, <<"missing", "brace">>)
    \/ Contains(explanation_lower, <<"invalid", "character">>)
    \/ Contains(explanation_lower, <<"unexpected", "token">>)

RegionKeywords(explanation_lower) ==
    \/ Contains(explanation_lower, <<"wrong", "region">>)
    \/ Contains(explanation_lower, <<"invalid", "region">>)
    \/ Contains(explanation_lower, <<"incorrect", "region">>)
    \/ Contains(explanation_lower, <<"not", "found", "in", "the", "list">>)

VariableKeywords(explanation_lower) ==
    Contains(explanation_lower, <<"missing">>) /\ Contains(explanation_lower, <<"variable">>)

\* The completion was called and returned a response.
CompletionParsed == TerraformPath /\ ~completion.raises

\* C23: in the completion-parsing step a later matching override wins: an
\* explanation with a syntax keyword gives SYNTAX_ERROR, can_autofix false and
\* confidence >= 0.90 even when it matches the missing-variable or wrong-region
\* keywords too; one with a wrong-region keyword and no syntax keyword gives
\* WRONG_REGION with confidence >= 0.85 even when it has 'missing' and 'variable'.
C23_LaterOverrideWins ==
    CompletionParsed
        => LET explanation_lower == Lower(ai_result.explanation) IN
           /\ SyntaxKeywords(explanation_lower)
                  => /\ ai_result.category = "TERRAFORM_SYNTAX_ERROR"
                     /\ ~ai_result.can_autofix
                     /\ ai_result.confidence >= 90
           /\ (RegionKeywords(explanation_lower) /\ ~SyntaxKeywords(explanation_lower))
                  => /\ ai_result.category = "TERRAFORM_WRONG_REGION"
                     /\ ai_result.confidence >= 85

C23_Witness ==
    /\ CompletionParsed
    /\ SyntaxKeywords(Lower(ai_result.explanation))
    /\ VariableKeywords(Lower(ai_result.explanation))
    /\ RegionKeywords(Lower(ai_result.explanation))
    /\ ai_result.category = "TERRAFORM_SYNTAX_ERROR"
    /\ ~ai_result.can_autofix

\* C24: when the detector gave a hint with confidence >= 0.90 and the
\* completion-derived category differs from it, the final category is the
\* hint's and the final confidence the larger of the completion-derived and the
\* hint's confidence; with no hint, or when the categories agree, category and
\* confidence are the completion-derived ones.
C24_PatternHintOverride ==
    TerraformPath
        => IF pattern[1] # "None" /\ pattern[2] >= 90 /\ ai_result.category # pattern[1]
           THEN /\ rca_result.category = pattern[1]
                /\ rca_result.confidence =
                       IF ai_result.confidence >= pattern[2]
                       THEN ai_result.confidence ELSE pattern[2]
           ELSE /\ rca_result.category = ai_result.category
                /\ rca_result.confidence = ai_result.confidence

C24_Witness ==
    /\ TerraformPath
    /\ pattern = <<"TERRAFORM_WRONG_REGION", 90>>
    /\ ai_result.category = "TERRAFORM_SYNTAX_ERROR"
    /\ ai_result.confidence = 95
    /\ rca_result.category = "TERRAFORM_WRONG_REGION"
    /\ rca_result.confidence = 95

\* C25: the can_autofix value analyze_terraform_failure returns is the Autofix
\* Policy applied to the final category and explanation, that is
\* can_be_autofixed(explanation, category).
C25_AutofixIsThePolicy ==
    TerraformPath
        => rca_result.can_autofix
               = can_be_autofixed(rca_result.explanation, rca_result.category)

\* The responses that differ from the given one only in the value of one
\* CAN_AUTOFIX line.
CanAutofixVariants(response) ==
    { [response EXCEPT ![n] = line] :
        n \in { m \in 1..Len(response) : response[m][1] = "CAN_AUTOFIX:" },
        line \in { l \in RespLines : l[1] = "CAN_AUTOFIX:" } }

\* C26: the completion's CAN_AUTOFIX field has no influence on the result: a run
\* of analyze_terraform_failure on the same log with a response that differs
\* only in the value of the CAN_AUTOFIX line returns the same category,
\* confidence and can_autofix.
C26_CanAutofixFieldIgnored ==
    CompletionParsed
        => \A other \in CanAutofixVariants(completion.response) :
               LET second == analyze_terraform_failure(ContextLogs(context),
                                 [completion EXCEPT !.response = other])
               IN  /\ second.category = rca_result.category
                   /\ second.confidence = rca_result.confidence
                   /\ second.can_autofix = rca_result.can_autofix

\* C27: whenever execute_remediation returns WORK_ITEM_CREATED, the
\* work-tracking service created a work item in that run and the returned
\* work_item_id is a real id, not None.
C27_WorkItemReallyCreated ==
    action_result.action = "WORK_ITEM_CREATED"
        => /\ calls.work_items_created >= 1
           /\ action_result.work_item_id # "None"

\* C28: when GitHubOperations.create_fix_pr raises, at whatever step, the
\* repository is as the call found it: the auto-fix branch the failed call
\* created does not remain.
C28_FailedCallLeavesNoBranch ==
    \A r \in RunIds :
        repo.runs[r].pc = "raised"
            => ~(repo.runs[r].ref_created /\ repo.runs[r].branch \in repo.branches)

\* The source-control collaborator of the run's repository can be constructed
\* and its service lets the pull request be created.
CollaboratorAble ==
    IF IsGithub(failure_context.repo_url)
    THEN ~GitHubOperationsRaises(env) /\ outcomes.github = "created"
    ELSE ~GitOperationsRaises(env) /\ failure_context.source_branch # "None"

\* C29: with confidence >= 0.65, can_autofix true and a source-control
\* collaborator able to create the pull request, execute_remediation returns
\* AUTO_FIX_PR_CREATED with the PR's URL, for a GitHub repository URL and for an
\* Azure Repos repository URL alike.
C29_PrCreatedOnBothHosts ==
    (/\ action_result.action # "None"
     /\ rca_result.confidence >= 65
     /\ rca_result.can_autofix
     /\ ~AdoClientRaises(env)
     /\ CollaboratorAble)
        => /\ action_result.action = "AUTO_FIX_PR_CREATED"
           /\ action_result.pr_url # "None"

\* C30: in every run, if the final category is TERRAFORM_SYNTAX_ERROR, or the
\* run did not take the Terraform path (pipeline-YAML or generic path), then
\* create_fix_pr is never called, whatever the completion answered and whatever
\* the confidence.
C30_NoFixPrForSyntaxOrOtherPaths ==
    (/\ Classified
     /\ \/ rca_result.category = "TERRAFORM_SYNTAX_ERROR"
        \/ ~is_terraform_failure(ContextLogs(context)))
        => /\ calls.create_fix_pr = <<>>
           /\ ~calls.autofix_attempted

C30_Witness ==
    /\ RunDone
    /\ rca_result.category = "TERRAFORM_SYNTAX_ERROR"
    /\ rca_result.confidence >= 65
    /\ action_result.action = "WORK_ITEM_CREATED"
    /\ calls.create_fix_pr = <<>>

====
